---- MODULE Spec2Model ----
(***************************************************************************)
(* A model of web_agent.py (hayhaiSearch): the sliding-window RateLimiter  *)
(* and the with_retries decorator, the TTL caches, QwantApi.search,        *)
(* get_content and the qwant_search content-acquisition pipeline.          *)
(*                                                                         *)
(* Time is a discrete clock `now` (seconds).  Every coroutine is modelled  *)
(* by a program counter; one action is the code a coroutine runs between   *)
(* two suspension points of the asyncio event loop (a network call, a      *)
(* sleep, a blocked semaphore acquire).                                    *)
(***************************************************************************)
EXTENDS Integers, Sequences, FiniteSets, TLC

\* ------------------------------------------------------------------ bounds
\* Largest value of the clock.
MaxTime == 110
\* The clock advances in steps of Quantum seconds.
Quantum == 20
\* Number of wrapped calls the callers make in all.
MaxCalls == 3
\* RateLimiter(rpm_limit=...): the constructor's parameter (15 by default),
\* scaled down so that the limit is reached within the bounds.
rpm_limit == 2
\* Largest value of the caches' timer.
MaxMono == 4
\* TTLCache(maxsize=..., ttl=...): the constructor's parameters (100 to 500
\* entries, 3600 or 7200 seconds), scaled down.
CacheMaxSize == 2
CacheTTL == 2
\* Number of distinct cache keys.
NKeys == 3
\* Number of direct calls of get_content.
MaxGets == 3
\* Largest max_results of a qwant_search call.
MaxResults == 3
\* Number of URLs of the largest provider answer.
MaxUrls == 9
\* QwantApi.search calls made by a direct caller
MaxSearches == 3

\* --------------------------------------------------------- program constants
tpm_limit == 1000000
window == 60
max_retries == 5
base_delay == 1
\* get_content: max_retries = 3, base_delay = 1, and the content size limit
gc_max_retries == 3
gc_base_delay == 1
MaxContent == 10000
\* QwantApi.MAX_RETRIES and asyncio.Semaphore(8)
MAX_RETRIES == 3
RETRY_DELAY == 5
SemPermits == 8

VARIABLES
  now,        \* time.time()
  requests,   \* RateLimiter.requests: deque of timestamps
  tokens,     \* RateLimiter.tokens: deque of timestamps, one per token
  pc,         \* pc[t]: where caller t is inside wrapper()
  attempt,    \* attempt[t]: the loop variable of wrapper()
  wakeAt,     \* wakeAt[t]: when t's asyncio.sleep ends
  status,     \* status[t]: how t's last call ended: 0 (none yet), 200, 429, 500
  ncalls,     \* wrapped calls started so far, by all callers
  fcalls,     \* history: invocations of func in t's current call
  sleeps,     \* history: backoff sleeps in t's current call
  rlwaits,    \* history: rate-limit sleeps in t's current attempt
  lastF,      \* history: the outcome of t's last invocation of func
  recorded,   \* history: add_request calls made by t's current call
  mono,       \* time.monotonic(), the timer of the TTL caches
  cache,      \* a TTLCache(maxsize, ttl)
  lastPut,    \* history: what the last cache[key] = value did
  lastGet,    \* history: what the last key in cache / cache[key] answered
  cur,        \* the coroutine that is running between two suspension points, or -1
  gc,         \* gc[g]: the get_content call of coroutine g
  gcalls,     \* direct calls of get_content made so far
  netModes,   \* the answers the network gives in this run
  scache,     \* SEARCH_CACHE
  sr,         \* sr[s]: the QwantApi.search call of coroutine s
  provider,   \* the answers the search provider gives in this run
  pq,         \* qwant_search: its arguments, locals and program counter
  ft,         \* ft[i]: the fetch_url_with_semaphore task of the i-th URL
  sem,        \* the value of the asyncio.Semaphore
  lru,        \* the lru_cache of QwantApi.search: the argument tuples it holds
  slog,       \* history: the direct calls of QwantApi.search
  ep          \* search_endpoint: its program counter and its response

retryVars == <<now, requests, tokens, pc, attempt, wakeAt, status, ncalls, fcalls, sleeps,
               rlwaits, lastF, recorded>>
cacheVars == <<mono, cache, lastPut, lastGet>>
contentVars == <<cur, gc, gcalls, netModes>>
pipeVars == <<scache, sr, provider, pq, ft, sem>>
searchVars == <<lru, slog, ep>>
vars == <<retryVars, cacheVars, contentVars, pipeVars, searchVars>>

\* What the actions of one component leave alone.
notRetry == <<cacheVars, contentVars, pipeVars, searchVars>>
notCache == <<retryVars, contentVars, pipeVars, searchVars>>
notContent == <<retryVars, lastPut, lastGet, pipeVars, searchVars>>
\* qwant_search makes a QwantApi of its own for each call, and no two searches
\* of one call have the same arguments: its calls never meet the lru_cache.
notPipe == <<retryVars, lastPut, lastGet, gcalls, netModes, provider, searchVars>>

\* The concurrent callers of operations wrapped by with_retries.
Tasks == {1, 2}

\* ------------------------------------------------------------- RateLimiter
RECURSIVE CleanOld(_, _)
\* _clean_old_entries: pop from the left while the head is window or more old.
CleanOld(queue, t) ==
  IF queue # <<>> /\ t - Head(queue) >= window THEN CleanOld(Tail(queue), t) ELSE queue

RECURSIVE Repeat(_, _)
Repeat(x, n) == IF n <= 0 THEN <<>> ELSE <<x>> \o Repeat(x, n - 1)

\* can_make_request(tokens): the answer, computed on the pruned deques.
CanMakeRequestAnswer(reqs, toks, n) ==
  Len(reqs) < rpm_limit /\ Len(toks) + n <= tpm_limit

\* add_request(tokens): the deques after the call.
AddRequestReqs(reqs, t) == Append(reqs, t)
AddRequestToks(toks, t, n) == IF n > 0 THEN toks \o Repeat(t, n) ELSE toks

\* The timestamps of `requests` that lie in the trailing window.
InWindow(reqs, t) == {i \in 1..Len(reqs) : t - reqs[i] < window}

\* ------------------------------------------------------------ with_retries
Pow2(n) == 2 ^ n

\* delay = base_delay * (2 ** attempt) + random.uniform(0, 1)
BackoffDelay(a, jitter) == base_delay * Pow2(a) + jitter

\* wait_time = 60 - (time.time() - gemini_rate_limiter.requests[0])
WaitTime(reqs, t) == 60 - (t - reqs[1])

\* The head of one loop iteration, up to its first suspension point:
\* can_make_request(), then either the rate-limit sleep or the call of func.
BeginAttempt(t, a) ==
  LET reqs == CleanOld(requests, now)
      toks == CleanOld(tokens, now)
  IN  /\ requests' = reqs
      /\ tokens' = toks
      /\ attempt' = [attempt EXCEPT ![t] = a]
      /\ IF CanMakeRequestAnswer(reqs, toks, 0)
         THEN /\ pc' = [pc EXCEPT ![t] = "in_f"]
              /\ fcalls' = [fcalls EXCEPT ![t] = IF a = 0 THEN 1 ELSE @ + 1]
              /\ rlwaits' = [rlwaits EXCEPT ![t] = 0]
              /\ wakeAt' = [wakeAt EXCEPT ![t] = 0]
              /\ status' = [status EXCEPT ![t] = 0]
         ELSE IF reqs = <<>>
         THEN \* requests[0] raises IndexError: caught, no "429" in it
              /\ pc' = [pc EXCEPT ![t] = "done"]
              /\ status' = [status EXCEPT ![t] = 500]
              /\ fcalls' = [fcalls EXCEPT ![t] = IF a = 0 THEN 0 ELSE @]
              /\ rlwaits' = [rlwaits EXCEPT ![t] = 0]
              /\ wakeAt' = [wakeAt EXCEPT ![t] = 0]
         ELSE /\ pc' = [pc EXCEPT ![t] = "rl_sleep"]
              /\ wakeAt' = [wakeAt EXCEPT ![t] = now + WaitTime(reqs, now)]
              /\ rlwaits' = [rlwaits EXCEPT ![t] = 1]
              /\ fcalls' = [fcalls EXCEPT ![t] = IF a = 0 THEN 0 ELSE @]
              /\ status' = [status EXCEPT ![t] = 0]

\* A caller enters wrapper(): attempt 0.
Start(t) ==
  /\ pc[t] \in {"idle", "done"}
  /\ ncalls < MaxCalls
  /\ ncalls' = ncalls + 1
  /\ BeginAttempt(t, 0)
  /\ sleeps' = [sleeps EXCEPT ![t] = 0]
  /\ lastF' = [lastF EXCEPT ![t] = "none"]
  /\ recorded' = [recorded EXCEPT ![t] = 0]
  /\ UNCHANGED now
  /\ UNCHANGED notRetry

\* Mutant of WakeRateLimit: after the sleep the limiter is asked again.
WakeRateLimitRechecks(t) ==
  /\ pc[t] = "rl_sleep"
  /\ now >= wakeAt[t]
  /\ BeginAttempt(t, attempt[t])
  /\ UNCHANGED <<now, ncalls, sleeps, lastF, recorded>>
  /\ UNCHANGED notRetry

\* asyncio.sleep(wait_time) is over: func is invoked, without a second check.
WakeRateLimit(t) ==
  /\ pc[t] = "rl_sleep"
  /\ now >= wakeAt[t]
  /\ pc' = [pc EXCEPT ![t] = "in_f"]
  /\ fcalls' = [fcalls EXCEPT ![t] = @ + 1]
  /\ UNCHANGED <<now, requests, tokens, attempt, wakeAt, status, ncalls, sleeps,
                 rlwaits, lastF, recorded>>
  /\ UNCHANGED notRetry

\* Mutant of FuncSucceeds: the request is recorded with one token.
FuncSucceedsOneToken(t) ==
  /\ pc[t] = "in_f"
  /\ requests' = AddRequestReqs(requests, now)
  /\ tokens' = AddRequestToks(tokens, now, 1)
  /\ recorded' = [recorded EXCEPT ![t] = @ + 1]
  /\ lastF' = [lastF EXCEPT ![t] = "ok"]
  /\ pc' = [pc EXCEPT ![t] = "done"]
  /\ status' = [status EXCEPT ![t] = 200]
  /\ UNCHANGED <<now, attempt, wakeAt, ncalls, fcalls, sleeps, rlwaits>>
  /\ UNCHANGED notRetry

\* func returns: add_request() and return result.
FuncSucceeds(t) ==
  /\ pc[t] = "in_f"
  /\ requests' = AddRequestReqs(requests, now)
  /\ tokens' = AddRequestToks(tokens, now, 0)
  /\ recorded' = [recorded EXCEPT ![t] = @ + 1]
  /\ lastF' = [lastF EXCEPT ![t] = "ok"]
  /\ pc' = [pc EXCEPT ![t] = "done"]
  /\ status' = [status EXCEPT ![t] = 200]
  /\ UNCHANGED <<now, attempt, wakeAt, ncalls, fcalls, sleeps, rlwaits>>
  /\ UNCHANGED notRetry

\* Mutant of FuncRateLimited: the rejected attempt is recorded as a request.
FuncRateLimitedRecorded(t) ==
  /\ pc[t] = "in_f"
  /\ \E jitter \in 0..1 :
       wakeAt' = [wakeAt EXCEPT ![t] = now + BackoffDelay(attempt[t], jitter)]
  /\ requests' = AddRequestReqs(requests, now)
  /\ lastF' = [lastF EXCEPT ![t] = "err429"]
  /\ sleeps' = [sleeps EXCEPT ![t] = @ + 1]
  /\ pc' = [pc EXCEPT ![t] = "backoff"]
  /\ UNCHANGED <<now, tokens, attempt, status, ncalls, fcalls, rlwaits, recorded>>
  /\ UNCHANGED notRetry

\* func raises and "429" is in str(e): backoff sleep, then continue.
FuncRateLimited(t) ==
  /\ pc[t] = "in_f"
  /\ \E jitter \in 0..1 :
       wakeAt' = [wakeAt EXCEPT ![t] = now + BackoffDelay(attempt[t], jitter)]
  /\ lastF' = [lastF EXCEPT ![t] = "err429"]
  /\ sleeps' = [sleeps EXCEPT ![t] = @ + 1]
  /\ pc' = [pc EXCEPT ![t] = "backoff"]
  /\ UNCHANGED <<now, requests, tokens, attempt, status, ncalls, fcalls, rlwaits, recorded>>
  /\ UNCHANGED notRetry

\* Mutant of FuncFails: the test for "429" is dropped, every failure is retried.
FuncFailsRetried(t) ==
  /\ pc[t] = "in_f"
  /\ \E jitter \in 0..1 :
       wakeAt' = [wakeAt EXCEPT ![t] = now + BackoffDelay(attempt[t], jitter)]
  /\ lastF' = [lastF EXCEPT ![t] = "other"]
  /\ sleeps' = [sleeps EXCEPT ![t] = @ + 1]
  /\ pc' = [pc EXCEPT ![t] = "backoff"]
  /\ UNCHANGED <<now, requests, tokens, attempt, status, ncalls, fcalls, rlwaits, recorded>>
  /\ UNCHANGED notRetry

\* func raises and "429" is not in str(e): raise HTTPException(500).
FuncFails(t) ==
  /\ pc[t] = "in_f"
  /\ lastF' = [lastF EXCEPT ![t] = "other"]
  /\ pc' = [pc EXCEPT ![t] = "done"]
  /\ status' = [status EXCEPT ![t] = 500]
  /\ UNCHANGED <<now, requests, tokens, attempt, wakeAt, ncalls, fcalls, sleeps,
                 rlwaits, recorded>>
  /\ UNCHANGED notRetry

\* Mutant of WakeBackoff: the loop runs one iteration too many.
WakeBackoffOneMore(t) ==
  /\ pc[t] = "backoff"
  /\ now >= wakeAt[t]
  /\ IF attempt[t] + 1 <= max_retries
     THEN BeginAttempt(t, attempt[t] + 1)
     ELSE /\ pc' = [pc EXCEPT ![t] = "done"]
          /\ status' = [status EXCEPT ![t] = 429]
          /\ UNCHANGED <<requests, tokens, attempt, wakeAt, fcalls, rlwaits>>
  /\ UNCHANGED <<now, ncalls, sleeps, lastF, recorded>>
  /\ UNCHANGED notRetry

\* The backoff sleep is over: the next iteration, or the loop is exhausted.
WakeBackoff(t) ==
  /\ pc[t] = "backoff"
  /\ now >= wakeAt[t]
  /\ IF attempt[t] + 1 < max_retries
     THEN BeginAttempt(t, attempt[t] + 1)
     ELSE /\ pc' = [pc EXCEPT ![t] = "done"]
          /\ status' = [status EXCEPT ![t] = 429]
          /\ UNCHANGED <<requests, tokens, attempt, wakeAt, fcalls, rlwaits>>
  /\ UNCHANGED <<now, ncalls, sleeps, lastF, recorded>>
  /\ UNCHANGED notRetry

\* Time passes, one quantum at a time; a sleep ends at the first instant of
\* the clock that is not before its deadline.
Tick ==
  /\ now + Quantum <= MaxTime
  /\ now' = now + Quantum
  /\ UNCHANGED <<requests, tokens, pc, attempt, wakeAt, status, ncalls, fcalls, sleeps,
                 rlwaits, lastF, recorded>>
  /\ UNCHANGED notRetry


\* ---------------------------------------------------------------- TTLCache
\* The caches are cachetools.TTLCache objects.  A cache is a record
\*   lru:  the keys, least recently used first (TTLCache.__links)
\*   ttlq: the keys in the order of their last assignment (the expiry list)
\*   data: key -> [val, expires, at]; `at` is the time of the assignment.
Keys == 1..NKeys

EmptyCache == [lru |-> <<>>, ttlq |-> <<>>, data |-> <<>>]

Remove(seq, k) == SelectSeq(seq, LAMBDA x : x # k)

Stored(c, k) == k \in DOMAIN c.data

Delete(c, k) ==
  [lru |-> Remove(c.lru, k), ttlq |-> Remove(c.ttlq, k),
   data |-> [x \in (DOMAIN c.data) \ {k} |-> c.data[x]]]

RECURSIVE Expire(_, _)
\* TTLCache.expire(time): drop entries from the head of the expiry list while
\* not (time < expires).
Expire(c, t) ==
  IF c.ttlq # <<>> /\ ~(t < c.data[Head(c.ttlq)].expires)
  THEN Expire(Delete(c, Head(c.ttlq)), t)
  ELSE c

\* TTLCache.__contains__: key in cache.  Nothing is removed or reordered.
Contains(c, k, t) == Stored(c, k) /\ t < c.data[k].expires

\* TTLCache.__getitem__, the cache after it: the key moves to the recently
\* used end of lru, also when the entry has expired.
GetItemCache(c, k) ==
  IF Stored(c, k) THEN [c EXCEPT !.lru = Append(Remove(c.lru, k), k)] ELSE c

\* TTLCache.__getitem__, the answer: the value, or KeyError for a key that
\* is not stored or has expired.
GetItemFound(c, k, t) == Stored(c, k) /\ t < c.data[k].expires

RECURSIVE PopWhileFull(_, _)
\* Cache.__setitem__: while currsize + size > maxsize: popitem(), which for a
\* TTLCache removes the least recently used entry.
PopWhileFull(c, maxsize) ==
  IF Len(c.lru) + 1 > maxsize /\ c.lru # <<>>
  THEN PopWhileFull(Delete(c, Head(c.lru)), maxsize)
  ELSE c

\* Mutant of SetItem: the capacity loop is missing.
SetItemNoEviction(c, k, v, t, maxsize, ttl) ==
  LET c1 == Expire(c, t)
  IN  [lru |-> Append(Remove(c1.lru, k), k),
       ttlq |-> Append(Remove(c1.ttlq, k), k),
       data |-> [x \in (DOMAIN c1.data) \cup {k} |->
                  IF x = k THEN [val |-> v, expires |-> t + ttl, at |-> t]
                  ELSE c1.data[x]]]

\* TTLCache.__setitem__: cache[key] = value at time t.
SetItem(c, k, v, t, maxsize, ttl) ==
  LET c1 == Expire(c, t)
      c2 == IF Stored(c1, k) THEN c1 ELSE PopWhileFull(c1, maxsize)
  IN  [lru |-> Append(Remove(c2.lru, k), k),
       ttlq |-> Append(Remove(c2.ttlq, k), k),
       data |-> [x \in (DOMAIN c2.data) \cup {k} |->
                  IF x = k THEN [val |-> v, expires |-> t + ttl, at |-> t]
                  ELSE c2.data[x]]]

\* The keys of the entries that have not expired at time t.
Live(c, t) == {k \in DOMAIN c.data : t < c.data[k].expires}

NoPut == [key |-> 0, full |-> FALSE, evicted |-> {}, oldest |-> 0, lru |-> 0, size |-> 0]
NoGet == [op |-> "none", key |-> 0, at |-> 0, stored |-> FALSE, insertedAt |-> 0,
          found |-> FALSE, val |-> 0]

\* cache[key] = value, the value being stamped with the time it was made.
CachePut(k) ==
  LET c1 == Expire(cache, mono)
      after == SetItem(cache, k, mono, mono, CacheMaxSize, CacheTTL)
  IN  /\ cache' = after
      /\ lastPut' = [key |-> k,
                     full |-> ~Stored(c1, k) /\ Cardinality(Live(cache, mono)) = CacheMaxSize,
                     evicted |-> Live(cache, mono) \ DOMAIN after.data,
                     oldest |-> IF c1.ttlq = <<>> THEN 0 ELSE Head(c1.ttlq),
                     lru |-> IF c1.lru = <<>> THEN 0 ELSE Head(c1.lru),
                     size |-> Cardinality(DOMAIN after.data)]
      /\ UNCHANGED <<mono, lastGet>>
      /\ UNCHANGED notCache

\* key in cache
CacheContains(k) ==
  /\ lastGet' = [op |-> "in", key |-> k, at |-> mono, stored |-> Stored(cache, k),
                 insertedAt |-> IF Stored(cache, k) THEN cache.data[k].at ELSE 0,
                 found |-> Contains(cache, k, mono), val |-> 0]
  /\ UNCHANGED <<mono, cache, lastPut>>
  /\ UNCHANGED notCache

\* cache[key]
CacheRead(k) ==
  /\ cache' = GetItemCache(cache, k)
  /\ lastGet' = [op |-> "read", key |-> k, at |-> mono, stored |-> Stored(cache, k),
                 insertedAt |-> IF Stored(cache, k) THEN cache.data[k].at ELSE 0,
                 found |-> GetItemFound(cache, k, mono),
                 val |-> IF GetItemFound(cache, k, mono) THEN cache.data[k].val ELSE 0]
  /\ UNCHANGED <<mono, lastPut>>
  /\ UNCHANGED notCache

\* The caches' timer advances.
MonoTick ==
  /\ mono < MaxMono
  /\ mono' = mono + 1
  /\ UNCHANGED <<cache, lastPut, lastGet>>
  /\ UNCHANGED notCache

CacheInit ==
  /\ mono = 0
  /\ cache = EmptyCache
  /\ lastPut = NoPut
  /\ lastGet = NoGet

CacheNext ==
  \/ \E k \in Keys : CachePut(k)
  \/ \E k \in Keys : CacheContains(k)
  \/ \E k \in Keys : CacheRead(k)
  \/ MonoTick


\* ------------------------------------------------------------------- URLs
\* A URL is a sequence of tokens, pieces of its text, so that the substring
\* tests, the regular expression and the str.replace calls of the code act on
\* runs of tokens: "youtube.com" is the run "youtu", "be", ".com" and
\* "youtu.be" the run "youtu", ".be".
IdTokens == {"a", "b", "c", "d", "e", "f", "g", "h", "i", "j", "k"}

U_plain == <<"https://", "site.org", "/", "a">>
U_other == <<"https://", "news.net", "/", "b">>
U_docs == <<"https://", "docs.", "site.org", "/", "a">>
U_git == <<"https://", "github.com", "/", "c", "/blob/", "d">>
U_watch == <<"https://", "www.", "youtu", "be", ".com", "/watch?v=", "e">>
U_short == <<"https://", "youtu", ".be", "/", "f">>
U_chan == <<"https://", "www.", "youtu", "be", ".com", "/", "g">>
\* https://youtudocs.be.com/h
U_ydocs == <<"https://", "youtu", "docs.", "be", ".com", "/", "h">>

\* `pat in url`
HasRun(url, pat) ==
  \E i \in 1..Len(url) : i + Len(pat) - 1 <= Len(url) /\ SubSeq(url, i, i + Len(pat) - 1) = pat
HasToken(url, tok) == HasRun(url, <<tok>>)

\* extract_youtube_id: the group of
\* (?:youtube\.com/watch\?v=|youtu\.be/)([a-zA-Z0-9_-]+), or "" for None.
ExtractYoutubeId(url) ==
  LET long == <<"youtu", "be", ".com", "/watch?v=">>
      short == <<"youtu", ".be", "/">>
      IdAfter(i, pat) ==
        /\ i + Len(pat) <= Len(url)
        /\ SubSeq(url, i, i + Len(pat) - 1) = pat
        /\ url[i + Len(pat)] \in IdTokens
      hits == {i \in 1..Len(url) : IdAfter(i, long) \/ IdAfter(i, short)}
      first == CHOOSE i \in hits : \A j \in hits : i <= j
  IN  IF hits = {} THEN ""
      ELSE IF IdAfter(first, long) THEN url[first + Len(long)]
      ELSE url[first + Len(short)]

\* ------------------------------------------------------------------ texts
\* A text is known by its kind, by the number of characters of content it
\* holds and by whether the truncation marker "..." ends it.
EmptyText == [kind |-> "empty", body |-> 0, marker |-> FALSE]
KeyError == [kind |-> "KeyError", body |-> 0, marker |-> FALSE]
NoText == [kind |-> "none", body |-> 0, marker |-> FALSE]

\* " ".join(data), then content[:10000] + "..." when it is longer.
PageText(n) ==
  IF n = 0 THEN EmptyText
  ELSE IF n > MaxContent THEN [kind |-> "page", body |-> MaxContent, marker |-> TRUE]
  ELSE [kind |-> "page", body |-> n, marker |-> FALSE]

\* The transcript branch: " ".join([cleaned_transcript]), no size limit.
TranscriptText(n) == [kind |-> "transcript", body |-> n, marker |-> FALSE]

\* content.strip() is empty
IsBlank(text) == text.body = 0

\* The length of " ".join(data) for the three kinds of page a fetch may get.
PageLen(r) == CASE r = "blank" -> 0 [] r = "short" -> 40 [] r = "long" -> 10001
\* What get_youtube_transcript returns: 0 for "", else the length of
\* "[Transcript] ...".
TranscriptLens == {0, 12, 10001}
\* What one HTTP attempt meets.
Responses == {"status", "neterr", "binary", "undecodable", "crash", "blank", "short", "long"}

\* ------------------------------------------------------------ get_content
\* Coroutine 0 calls get_content directly; coroutines 1..MaxUrls are the
\* fetch tasks of qwant_search, which call it too.
Direct == 0
FetchIds == 1..MaxUrls
GIds == {Direct} \cup FetchIds

IdleCall == [pc |-> "idle", url |-> <<>>, isv |-> FALSE, attempt |-> 0, ret |-> NoText,
             http |-> 0, src |-> "none", tr |-> "na", sawExpired |-> FALSE,
             readExpired |-> FALSE, slept |-> <<>>]

CacheKey(url, isv) == <<url, isv>>

\* get_content returns `text` to its caller; a direct caller is then done.
Returned(g, call, text, from) ==
  /\ gc' = [gc EXCEPT ![g] = [call EXCEPT !.pc = "ret", !.ret = text, !.src = from]]
  /\ cur' = IF g = Direct THEN -1 ELSE g

\* The first session.get of the retry loop: the coroutine is suspended.
StartHttp(g, call) ==
  /\ gc' = [gc EXCEPT ![g] = [call EXCEPT !.pc = "http", !.attempt = 0, !.http = 1]]
  /\ cur' = -1

\* get_content after a cache miss, up to its first suspension point.
AfterMiss(g, call) ==
  LET video_id == ExtractYoutubeId(call.url)
  IN  IF video_id # "" /\ call.isv
      THEN \E n \in TranscriptLens :
             IF n > 0
             THEN /\ cache' = SetItem(cache, CacheKey(call.url, call.isv),
                                      TranscriptText(n), mono, CacheMaxSize, CacheTTL)
                  /\ Returned(g, [call EXCEPT !.tr = "ok"], TranscriptText(n), "transcript")
             ELSE /\ StartHttp(g, [call EXCEPT !.tr = "failed"])
                  /\ UNCHANGED cache
      ELSE IF video_id # "" /\ ~call.isv
      THEN /\ Returned(g, call, EmptyText, "none")
           /\ UNCHANGED cache
      ELSE /\ StartHttp(g, call)
           /\ UNCHANGED cache

\* Mutant of EnterGetContent: the membership test looks only at what is stored.
EnterGetContentStored(g, url, isv) ==
  LET key == CacheKey(url, isv)
      call == [IdleCall EXCEPT !.url = url, !.isv = isv,
                 !.sawExpired = Stored(cache, key) /\ mono >= cache.data[key].at + CacheTTL]
  IN  IF Stored(cache, key)
      THEN /\ gc' = [gc EXCEPT ![g] = [call EXCEPT !.pc = "ret", !.ret = cache.data[key].val,
                                                   !.src = "cache"]]
           /\ cur' = IF g = Direct THEN -1 ELSE g
           /\ UNCHANGED cache
      ELSE AfterMiss(g, call)

\* get_content(url, is_video_search) is called: `cache_key in CONTENT_CACHE`.
EnterGetContent(g, url, isv) ==
  LET key == CacheKey(url, isv)
      call == [IdleCall EXCEPT !.url = url, !.isv = isv,
                 !.sawExpired = Stored(cache, key) /\ mono >= cache.data[key].at + CacheTTL]
  IN  IF Contains(cache, key, mono)
      THEN /\ gc' = [gc EXCEPT ![g] = [call EXCEPT !.pc = "read"]]
           /\ cur' = g
           /\ UNCHANGED cache
      ELSE AfterMiss(g, call)

\* `return CONTENT_CACHE[cache_key]`: the timer is read a second time.
ReadCached(g) ==
  LET call == gc[g]
      key == CacheKey(call.url, call.isv)
  IN  /\ call.pc = "read"
      /\ cur = g
      /\ cache' = GetItemCache(cache, key)
      /\ IF GetItemFound(cache, key, mono)
         THEN Returned(g, call, cache.data[key].val, "cache")
         ELSE Returned(g, [call EXCEPT !.readExpired = TRUE], KeyError, "none")
      /\ UNCHANGED <<mono, gcalls, netModes>>
      /\ UNCHANGED notContent

\* Mutant of HttpAnswer: the content is cached without the content.strip() test.
HttpAnswerCachesAll(g) ==
  LET call == gc[g]
      key == CacheKey(call.url, call.isv)
  IN  /\ call.pc = "http"
      /\ cur = -1
      /\ \E r \in Responses \cap netModes :
           IF r \in {"status", "neterr"}
           THEN IF call.attempt = gc_max_retries - 1
                THEN /\ Returned(g, call, EmptyText, "none")
                     /\ UNCHANGED cache
                ELSE /\ gc' = [gc EXCEPT ![g] =
                                 [call EXCEPT !.pc = "sleep",
                                    !.slept = Append(@, gc_base_delay * Pow2(call.attempt))]]
                     /\ UNCHANGED <<cur, cache>>
           ELSE IF r \in {"binary", "undecodable", "crash"}
           THEN /\ Returned(g, call, EmptyText, "none")
                /\ UNCHANGED cache
           ELSE LET content == PageText(PageLen(r))
                IN  /\ Returned(g, call, content, IF IsBlank(content) THEN "none" ELSE "page")
                    /\ cache' = SetItem(cache, key, content, mono, CacheMaxSize, CacheTTL)
      /\ UNCHANGED <<mono, gcalls, netModes>>
      /\ UNCHANGED notContent

\* One HTTP attempt ends.
HttpAnswer(g) ==
  LET call == gc[g]
      key == CacheKey(call.url, call.isv)
  IN  /\ call.pc = "http"
      /\ cur = -1
      /\ \E r \in Responses \cap netModes :
           IF r \in {"status", "neterr"}
           THEN IF call.attempt = gc_max_retries - 1
                THEN /\ Returned(g, call, EmptyText, "none")
                     /\ UNCHANGED cache
                ELSE /\ gc' = [gc EXCEPT ![g] =
                                 [call EXCEPT !.pc = "sleep",
                                    !.slept = Append(@, gc_base_delay * Pow2(call.attempt))]]
                     /\ UNCHANGED <<cur, cache>>
           ELSE IF r \in {"binary", "undecodable", "crash"}
           THEN /\ Returned(g, call, EmptyText, "none")
                /\ UNCHANGED cache
           ELSE LET content == PageText(PageLen(r))
                IN  /\ Returned(g, call, content, IF IsBlank(content) THEN "none" ELSE "page")
                    /\ cache' = IF IsBlank(content) THEN cache
                                ELSE SetItem(cache, key, content, mono,
                                             CacheMaxSize, CacheTTL)
      /\ UNCHANGED <<mono, gcalls, netModes>>
      /\ UNCHANGED notContent

\* The backoff sleep of get_content ends: the next attempt.
HttpRetry(g) ==
  LET call == gc[g]
  IN  /\ call.pc = "sleep"
      /\ cur = -1
      /\ gc' = [gc EXCEPT ![g] = [call EXCEPT !.pc = "http", !.attempt = @ + 1,
                                               !.http = @ + 1]]
      /\ UNCHANGED <<cur, cache, mono, gcalls, netModes>>
      /\ UNCHANGED notContent

\* A direct call of get_content.
DirectCall(url, isv) ==
  /\ cur = -1
  /\ gc[Direct].pc \in {"idle", "ret"}
  /\ gcalls < MaxGets
  /\ gcalls' = gcalls + 1
  /\ EnterGetContent(Direct, url, isv)
  /\ UNCHANGED <<mono, netModes>>
  /\ UNCHANGED notContent

\* The caches' timer advances while get_content calls are under way.
ContentTick ==
  /\ mono < MaxMono
  /\ mono' = mono + 1
  /\ UNCHANGED <<cache, cur, gc, gcalls, netModes>>
  /\ UNCHANGED notContent

ContentUrls == {U_plain, U_watch, U_short, U_chan}

ContentInit ==
  /\ cur = -1
  /\ gc = [g \in GIds |-> IdleCall]
  /\ gcalls = 0
  /\ netModes = Responses

ContentNext ==
  \/ \E url \in ContentUrls, isv \in BOOLEAN : DirectCall(url, isv)
  \/ ReadCached(Direct)
  \/ HttpAnswer(Direct)
  \/ HttpRetry(Direct)
  \/ ContentTick


\* ----------------------------------------------------- the search provider
\* An item of a provider answer: a dict with a 'url', a dict with nested
\* 'items', or a dict with neither.
UrlItem(u) == [t |-> "url", url |-> u, items |-> <<>>]
BoxItem(items) == [t |-> "box", url |-> <<>>, items |-> items]
BareItem == [t |-> "bare", url |-> <<>>, items |-> <<>>]

\* results['data']['result']['items']: a list, or a dict with 'mainline'.
FlatItems(items) == [shape |-> "list", items |-> items]
MainlineItems(items) == [shape |-> "mainline", items |-> items]

\* What a QwantApi.search call gives: None, an exception, or the JSON.
NoneJ == [j |-> "none", code |-> 0, data |-> FlatItems(<<>>)]
ExcJ(code) == [j |-> "exc", code |-> code, data |-> FlatItems(<<>>)]
ItemsJ(data) == [j |-> "items", code |-> 0, data |-> data]
NoKeysJ == [j |-> "nokeys", code |-> 0, data |-> FlatItems(<<>>)]
FailedRequest == ExcJ(0)

Truthy(r) == r.j \in {"items", "nokeys"}

IdSeq == <<"a", "b", "c", "d", "e", "f", "g", "h", "i", "j", "k">>
U_n(i) ==
  IF i <= 2 THEN <<"https://", "docs.", "site.org", "/", IdSeq[i]>>
  ELSE <<"https://", "site.org", "/", IdSeq[i]>>

J_flat ==
  ItemsJ(FlatItems(<<UrlItem(U_plain), UrlItem(U_watch), BareItem, UrlItem(U_docs),
                     UrlItem(U_plain), BoxItem(<<UrlItem(U_chan), UrlItem(U_git)>>)>>))
J_main ==
  ItemsJ(MainlineItems(<<BoxItem(<<UrlItem(U_ydocs), UrlItem(U_short)>>), BareItem,
                         BoxItem(<<UrlItem(U_ydocs), BareItem, UrlItem(U_other),
                                   UrlItem(U_plain)>>)>>))
J_none == ItemsJ(FlatItems(<<>>))
J_pair == ItemsJ(FlatItems(<<UrlItem(U_plain), UrlItem(U_docs)>>))
J_many == ItemsJ(FlatItems([i \in 1..MaxUrls |-> UrlItem(U_n(i))]))

\* ------------------------------------------------------ URL extraction
IsYoutube(url) == HasRun(url, <<"youtu", "be", ".com">>) \/ HasRun(url, <<"youtu", ".be">>)

InSeq(x, seq) == \E i \in 1..Len(seq) : seq[i] = x

\* Mutant of NestedStep: the inner loop does not skip duplicates.
NestedStepNoDedup(sub, acc, isv) ==
  IF sub.t # "url" THEN acc
  ELSE IF ~isv /\ IsYoutube(sub.url) THEN acc
  ELSE [urls |-> Append(acc.urls, sub.url), count |-> acc.count + 1]

\* The body of the inner loop, for one subitem.
NestedStep(sub, acc, isv) ==
  IF sub.t # "url" THEN acc
  ELSE IF ~isv /\ IsYoutube(sub.url) THEN acc
  ELSE IF ~InSeq(sub.url, acc.urls)
  THEN [urls |-> Append(acc.urls, sub.url), count |-> acc.count + 1]
  ELSE acc

RECURSIVE ExtractNested(_, _, _, _)
\* for subitem in item['items']: ...   The list and the count after one subitem
\* are bound by a quantifier, so that they are computed once for each subitem.
ExtractNested(subs, acc, max, isv) ==
  IF subs = <<>> \/ acc.count >= max THEN acc
  ELSE CHOOSE r \in {ExtractNested(Tail(subs), step, max, isv) :
                       step \in {NestedStep(Head(subs), acc, isv)}} : TRUE

\* The body of the outer loop, for one item.
ItemStep(item, acc, max, isv) ==
  IF item.t = "url"
  THEN IF ~isv /\ IsYoutube(item.url) THEN acc
       ELSE IF ~InSeq(item.url, acc.urls)
       THEN [urls |-> Append(acc.urls, item.url), count |-> acc.count + 1]
       ELSE acc
  ELSE IF item.t = "box" THEN ExtractNested(item.items, acc, max, isv)
  ELSE acc

\* Mutant of LoopBreaks: the cap is tested with > instead of >=.
LoopBreaksLate(count, max) == count > max

\* if count >= max_results: break
LoopBreaks(count, max) == count >= max

RECURSIVE ExtractItems(_, _, _, _)
\* for item in items_data: ...
ExtractItems(items, acc, max, isv) ==
  IF items = <<>> \/ LoopBreaks(acc.count, max) THEN acc
  ELSE CHOOSE r \in {ExtractItems(Tail(items), step, max, isv) :
                       step \in {ItemStep(Head(items), acc, max, isv)}} : TRUE

\* extract_urls_from_items(items_data, url_list, count): the list and the count.
ExtractUrlsFromItems(items_data, acc, max, isv) ==
  IF items_data.shape = "list" /\ items_data.items = <<>> THEN acc
  ELSE ExtractItems(items_data.items, acc, max, isv)

\* Both extractions of qwant_search: the primary, then the secondary results.
CollectUrls(results, secondary, max, isv) ==
  LET r1 == IF results.j = "items"
            THEN ExtractUrlsFromItems(results.data, [urls |-> <<>>, count |-> 0], max, isv)
            ELSE [urls |-> <<>>, count |-> 0]
  IN  IF Truthy(secondary) /\ r1.count < max /\ secondary.j = "items"
      THEN ExtractUrlsFromItems(secondary.data, r1, max, isv)
      ELSE r1

\* is_video_query: question.lower() holds one of the keywords.
Lower(w) == CASE w = "Watch" -> "watch" [] w = "YouTube" -> "youtube" [] OTHER -> w
WordsWithKeyword == {"video", "videos", "youtube", "watch", "watching", "clip", "footage"}
IsVideoQuery(question, search_type) ==
  search_type = "videos" \/ \E i \in 1..Len(question) : Lower(question[i]) \in WordsWithKeyword

Q_plain == <<"rust", "news">>
Q_video == <<"Watch", "cats">>

\* --------------------------------------------------------- QwantApi.search
SearchIds == {101, 102}

SearchIdle == [pc |-> "idle", type |-> "", attempt |-> 0, out |-> NoneJ, http |-> 0,
               slept |-> <<>>]
\* The call is over: only what it gave is left of it.
SearchDone(type, out) == [SearchIdle EXCEPT !.pc = "done", !.type = type, !.out = out]
SearchNew(type) == [SearchIdle EXCEPT !.pc = "new", !.type = type]

SearchKey(q, type) == <<q, type, "en_GB", 0, 5>>

\* search() up to its first suspension point: `cache_key in SEARCH_CACHE`,
\* or else the first session.get.
EnterSearchCall(q, type) ==
  IF Contains(scache, SearchKey(q, type), mono)
  THEN [SearchIdle EXCEPT !.pc = "read", !.type = type]
  ELSE [SearchIdle EXCEPT !.pc = "http", !.type = type, !.http = 1]
EnterSearchCur(s, q, type) ==
  IF Contains(scache, SearchKey(q, type), mono) THEN s ELSE -1

\* ---------------------------------------- QwantApi.search, called directly
SearchTypes == {"web", "news"}
Instances == {1, 2}
Caller == 101
RuntimeError == ExcJ(2)

NoSearchLog ==
  [n |-> 0, inst |-> 0, start |-> 0, snap |-> EmptyCache,
   okAt |-> [t \in SearchTypes |-> -1], okVal |-> [t \in SearchTypes |-> NoneJ],
   due |-> FALSE, val |-> NoneJ]

\* The log once the call that has just returned is taken in: a call that got
\* its result from the provider is the latest successful call of its type.
Logged ==
  IF sr[Caller].pc = "ret" /\ sr[Caller].http > 0 /\ sr[Caller].out.j # "exc"
  THEN [slog EXCEPT !.okAt[sr[Caller].type] = slog.start,
                    !.okVal[sr[Caller].type] = sr[Caller].out]
  ELSE slog

\* @lru_cache(maxsize=100): the wrapper holds the coroutine object that an
\* earlier call with these arguments, self included, was given.
LruHit(inst, type) == <<inst, type>> \in lru

\* qwant.search(q, search_type=type) is called and awaited on instance inst.
\* On an lru_cache hit the coroutine object of the earlier call is returned,
\* and awaiting it a second time raises RuntimeError.
SearchCall(inst, type) ==
  /\ slog.n < MaxSearches
  /\ \/ sr[Caller].pc = "idle" /\ cur = -1
     \/ sr[Caller].pc = "ret" /\ cur = Caller
  /\ slog' = [Logged EXCEPT !.n = @ + 1, !.inst = inst, !.start = mono, !.snap = scache,
                            !.due = Logged.okAt[type] >= 0 /\ mono - Logged.okAt[type] < CacheTTL,
                            !.val = Logged.okVal[type]]
  /\ IF LruHit(inst, type)
     THEN /\ sr' = [sr EXCEPT ![Caller] = [SearchIdle EXCEPT !.pc = "ret", !.type = type,
                                                             !.out = RuntimeError]]
          /\ cur' = Caller
          /\ UNCHANGED lru
     ELSE /\ sr' = [sr EXCEPT ![Caller] = EnterSearchCall(pq.query, type)]
          /\ cur' = EnterSearchCur(Caller, pq.query, type)
          /\ lru' = lru \cup {<<inst, type>>}
  /\ UNCHANGED <<scache, provider, pq, ft, sem, gc, cache, mono>>
  /\ UNCHANGED <<retryVars, lastPut, lastGet, gcalls, netModes, ep>>

\* ------------------------------------------------------------ qwant_search
NoResult == [some |-> FALSE, url |-> <<>>, text |-> NoText]
NoTask == [pc |-> "none", stage |-> "", url |-> <<>>, ret |-> NoResult]
NewTask(url) == [NoTask EXCEPT !.pc = "new", !.url = url]

NoOut == [returned |-> FALSE, urls |-> <<>>, contents |-> <<>>, error |-> FALSE]

IdlePipe(q, type, max) ==
  [pc |-> "idle", query |-> q, type |-> type, max |-> max, isv |-> FALSE,
   all_urls |-> <<>>, out |-> NoOut]

Min(a, b) == IF a < b THEN a ELSE b

\* all_urls[:max_results], for max_results >= 0
Slice(seq, n) == SubSeq(seq, 1, Min(n, Len(seq)))

ReplaceTok(url, from, to) == [i \in 1..Len(url) |-> IF url[i] = from THEN to ELSE url[i]]
RemoveTok(url, tok) == SelectSeq(url, LAMBDA x : x # tok)

\* url.replace('github.com', 'raw.githubusercontent.com').replace('/blob/', '/')
RawUrl(url) == ReplaceTok(ReplaceTok(url, "github.com", "raw.githubusercontent.com"),
                          "/blob/", "/")
\* alt_urls
AltUrl1(url) == ReplaceTok(url, "docs.", "www.")
AltUrl2(url) == RemoveTok(url, "docs.")

\* The searches are over: URL collection, then the fetch tasks are created.
Collect(results, secondary) ==
  LET isv == IsVideoQuery(pq.query, pq.type)
      all_urls == CollectUrls(results, secondary, pq.max, isv).urls
      sliced == Slice(all_urls, pq.max)
  IN  /\ cur' = -1
      /\ IF all_urls # <<>>
         THEN /\ pq' = [pq EXCEPT !.pc = "fetching", !.isv = isv, !.all_urls = all_urls]
              /\ ft' = [i \in FetchIds |->
                          IF i <= Len(sliced) THEN NewTask(sliced[i]) ELSE NoTask]
              /\ sem' = SemPermits
         ELSE /\ pq' = [pq EXCEPT !.pc = "done", !.isv = isv, !.all_urls = all_urls,
                                  !.out = [NoOut EXCEPT !.returned = TRUE]]
              /\ UNCHANGED <<ft, sem>>

\* qwant_search is called.
PipeStart ==
  /\ pq.pc = "idle"
  /\ cur = -1
  /\ pq' = [pq EXCEPT !.pc = "searching"]
  /\ IF pq.type = "web"
     THEN /\ sr' = [sr EXCEPT ![101] = SearchNew("web"), ![102] = SearchNew("news")]
          /\ cur' = -1
     ELSE /\ sr' = [sr EXCEPT ![101] = EnterSearchCall(pq.query, pq.type)]
          /\ cur' = EnterSearchCur(101, pq.query, pq.type)
  /\ UNCHANGED <<scache, ft, sem, gc, cache, mono>>
  /\ UNCHANGED notPipe

\* One of the two searches gathered for a "web" request starts.
SearchBegin(s) ==
  /\ sr[s].pc = "new"
  /\ \A o \in SearchIds : o < s => sr[o].pc # "new"
  /\ cur = -1
  /\ sr' = [sr EXCEPT ![s] = EnterSearchCall(pq.query, sr[s].type)]
  /\ cur' = EnterSearchCur(s, pq.query, sr[s].type)
  /\ UNCHANGED <<scache, pq, ft, sem, gc, cache, mono>>
  /\ UNCHANGED notPipe

\* `return SEARCH_CACHE[cache_key]`
SearchRead(s) ==
  LET key == SearchKey(pq.query, sr[s].type)
  IN  /\ sr[s].pc = "read"
      /\ cur = s
      /\ scache' = GetItemCache(scache, key)
      /\ sr' = [sr EXCEPT ![s].pc = "ret",
                          ![s].out = IF GetItemFound(scache, key, mono)
                                     THEN scache.data[key].val ELSE ExcJ(1)]
      /\ UNCHANGED <<cur, pq, ft, sem, gc, cache, mono>>
      /\ UNCHANGED notPipe

\* One attempt of the external call ends.
SearchAnswer(s) ==
  LET key == SearchKey(pq.query, sr[s].type)
  IN  /\ sr[s].pc = "http"
      /\ cur = -1
      /\ \E a \in provider :
           IF a = FailedRequest
           THEN /\ IF sr[s].attempt = MAX_RETRIES - 1
                   THEN /\ sr' = [sr EXCEPT ![s].pc = "ret", ![s].out = ExcJ(503)]
                        /\ cur' = s
                   ELSE /\ sr' = [sr EXCEPT ![s].pc = "sleep",
                                            ![s].slept = Append(@, RETRY_DELAY)]
                        /\ cur' = -1
                /\ UNCHANGED scache
           ELSE /\ scache' = SetItem(scache, key, a, mono, CacheMaxSize, CacheTTL)
                /\ sr' = [sr EXCEPT ![s].pc = "ret", ![s].out = a]
                /\ cur' = s
      /\ UNCHANGED <<pq, ft, sem, gc, cache, mono>>
      /\ UNCHANGED notPipe

\* Mutant of SearchRetry: the loop variable does not advance.
SearchRetryNoCount(s) ==
  /\ sr[s].pc = "sleep"
  /\ cur = -1
  /\ sr' = [sr EXCEPT ![s].pc = "http", ![s].http = @ + 1]
  /\ UNCHANGED <<cur, scache, pq, ft, sem, gc, cache, mono>>
  /\ UNCHANGED notPipe

\* asyncio.sleep(RETRY_DELAY) ends: the next attempt.
SearchRetry(s) ==
  /\ sr[s].pc = "sleep"
  /\ cur = -1
  /\ sr' = [sr EXCEPT ![s].pc = "http", ![s].attempt = @ + 1, ![s].http = @ + 1]
  /\ UNCHANGED <<cur, scache, pq, ft, sem, gc, cache, mono>>
  /\ UNCHANGED notPipe

OrNone(r) == IF r.j = "exc" THEN NoneJ ELSE r

\* Mutant of Results: a failed "web" search is not replaced by the "news" one.
ResultsNoSwap(srf, search_type) ==
  IF search_type = "web" THEN OrNone(srf[101].out)
  ELSE IF srf[101].out.j = "exc" THEN OrNone(srf[102].out) ELSE srf[101].out

\* `results` and `secondary_results` once the searches `srf` are over.
Results(srf, search_type) ==
  IF search_type = "web"
  THEN IF ~Truthy(OrNone(srf[101].out)) /\ Truthy(OrNone(srf[102].out))
       THEN OrNone(srf[102].out) ELSE OrNone(srf[101].out)
  ELSE IF srf[101].out.j = "exc" THEN OrNone(srf[102].out) ELSE srf[101].out
Secondary(srf, search_type) ==
  IF search_type = "web"
  THEN IF ~Truthy(OrNone(srf[101].out)) /\ Truthy(OrNone(srf[102].out))
       THEN NoneJ ELSE OrNone(srf[102].out)
  ELSE NoneJ

\* A search has returned or raised: qwant_search goes on.
AfterSearch(s) ==
  /\ sr[s].pc = "ret"
  /\ cur = s
  /\ pq.pc = "searching"
  /\ IF pq.type = "web"
     THEN /\ sr' = [sr EXCEPT ![s] = SearchDone(sr[s].type, sr[s].out)]
          /\ IF \A o \in SearchIds \ {s} : sr[o].pc = "done"
             THEN Collect(Results(sr, pq.type), Secondary(sr, pq.type))
             ELSE /\ cur' = -1
                  /\ UNCHANGED <<pq, ft, sem>>
     ELSE IF s = 101 /\ sr[s].out.j = "exc"
     THEN /\ sr' = [sr EXCEPT ![101] = SearchDone(sr[s].type, sr[s].out),
                              ![102] = EnterSearchCall(pq.query, "web")]
          /\ cur' = EnterSearchCur(102, pq.query, "web")
          /\ UNCHANGED <<pq, ft, sem>>
     ELSE /\ sr' = [sr EXCEPT ![s] = SearchDone(sr[s].type, sr[s].out)]
          /\ Collect(Results(sr, pq.type), Secondary(sr, pq.type))
  /\ UNCHANGED <<scache, gc, cache, mono>>
  /\ UNCHANGED notPipe

\* Mutant of Admitted: the semaphore is entered whatever its value.
AdmittedAlways(i) == TRUE

\* async with semaphore: the task enters when a permit is free.
Admitted(i) == sem > 0

\* A fetch task starts: it enters the semaphore and calls get_content, or waits.
\* The event loop starts the gathered tasks in the order of their creation.
FetchBegin(i) ==
  /\ ft[i].pc = "new"
  /\ \A j \in FetchIds : j < i => ft[j].pc # "new"
  /\ cur = -1
  /\ IF Admitted(i)
     THEN /\ sem' = sem - 1
          /\ ft' = [ft EXCEPT ![i].pc = "in", ![i].stage = "primary"]
          /\ EnterGetContent(i, ft[i].url, pq.isv)
     ELSE /\ ft' = [ft EXCEPT ![i].pc = "waiting"]
          /\ UNCHANGED <<sem, gc, cur, cache>>
  /\ UNCHANGED <<scache, sr, pq, mono>>
  /\ UNCHANGED notPipe

\* A waiting fetch task gets a permit.
FetchAdmit(i) ==
  /\ ft[i].pc = "waiting"
  /\ cur = -1
  /\ Admitted(i)
  /\ sem' = sem - 1
  /\ ft' = [ft EXCEPT ![i].pc = "in", ![i].stage = "primary"]
  /\ EnterGetContent(i, ft[i].url, pq.isv)
  /\ UNCHANGED <<scache, sr, pq, mono>>
  /\ UNCHANGED notPipe

\* Mutant of FetchReturns: the task ends without giving its permit back.
FetchReturnsKeepsPermit(i, result) ==
  /\ ft' = [ft EXCEPT ![i].pc = "done", ![i].ret = result]
  /\ sem' = sem
  /\ cur' = -1
  /\ UNCHANGED <<gc, cache>>

\* The task returns `result` and leaves the semaphore.
FetchReturns(i, result) ==
  /\ ft' = [ft EXCEPT ![i].pc = "done", ![i].ret = result]
  /\ sem' = sem + 1
  /\ cur' = -1
  /\ UNCHANGED <<gc, cache>>

\* The task tries another URL.
FetchFallsBack(i, stage, url) ==
  /\ ft' = [ft EXCEPT ![i].stage = stage]
  /\ EnterGetContent(i, url, pq.isv)
  /\ UNCHANGED sem

\* Mutant of FetchContinue: the fallbacks are tried before the content test.
FetchContinueFallbackFirst(i) ==
  LET content == gc[i].ret
      url == ft[i].url
  IN  /\ ft[i].pc = "in"
      /\ gc[i].pc = "ret"
      /\ cur = i
      /\ IF content.kind = "KeyError"
         THEN FetchReturns(i, NoResult)
         ELSE IF ft[i].stage = "primary" /\ HasToken(url, "github.com")
         THEN FetchFallsBack(i, "git", RawUrl(url))
         ELSE IF ft[i].stage = "primary" /\ HasToken(url, "docs.")
         THEN FetchFallsBack(i, "doc1", AltUrl1(url))
         ELSE IF ft[i].stage = "doc1"
         THEN FetchFallsBack(i, "doc2", AltUrl2(url))
         ELSE IF ~IsBlank(content)
         THEN FetchReturns(i, [some |-> TRUE, url |-> url, text |-> content])
         ELSE FetchReturns(i, NoResult)
      /\ UNCHANGED <<scache, sr, pq, mono>>
      /\ UNCHANGED notPipe

\* Mutant of FetchContinue: the task returns the URL it fetched last.
FetchContinueKeysFetched(i) ==
  LET content == gc[i].ret
      url == ft[i].url
  IN  /\ ft[i].pc = "in"
      /\ gc[i].pc = "ret"
      /\ cur = i
      /\ IF content.kind = "KeyError"
         THEN FetchReturns(i, NoResult)
         ELSE IF ~IsBlank(content)
         THEN FetchReturns(i, [some |-> TRUE, url |-> gc[i].url, text |-> content])
         ELSE IF ft[i].stage = "primary" /\ HasToken(url, "github.com")
         THEN FetchFallsBack(i, "git", RawUrl(url))
         ELSE IF ft[i].stage = "primary" /\ HasToken(url, "docs.")
         THEN FetchFallsBack(i, "doc1", AltUrl1(url))
         ELSE IF ft[i].stage = "doc1"
         THEN FetchFallsBack(i, "doc2", AltUrl2(url))
         ELSE FetchReturns(i, NoResult)
      /\ UNCHANGED <<scache, sr, pq, mono>>
      /\ UNCHANGED notPipe

\* get_content has returned or raised inside a fetch task.
FetchContinue(i) ==
  LET content == gc[i].ret
      url == ft[i].url
  IN  /\ ft[i].pc = "in"
      /\ gc[i].pc = "ret"
      /\ cur = i
      /\ IF content.kind = "KeyError"
         THEN FetchReturns(i, NoResult)
         ELSE IF ~IsBlank(content)
         THEN FetchReturns(i, [some |-> TRUE, url |-> url, text |-> content])
         ELSE IF ft[i].stage = "primary" /\ HasToken(url, "github.com")
         THEN FetchFallsBack(i, "git", RawUrl(url))
         ELSE IF ft[i].stage = "primary" /\ HasToken(url, "docs.")
         THEN FetchFallsBack(i, "doc1", AltUrl1(url))
         ELSE IF ft[i].stage = "doc1"
         THEN FetchFallsBack(i, "doc2", AltUrl2(url))
         ELSE FetchReturns(i, NoResult)
      /\ UNCHANGED <<scache, sr, pq, mono>>
      /\ UNCHANGED notPipe

\* search_results[url] = content
DictSet(d, k, v) ==
  IF \E i \in 1..Len(d) : d[i][1] = k
  THEN [i \in 1..Len(d) |-> IF d[i][1] = k THEN <<k, v>> ELSE d[i]]
  ELSE Append(d, <<k, v>>)

RECURSIVE AssembleUntilFailure(_, _, _)
\* Mutant of Assemble: the loop over the results ends at the first task that
\* gave nothing.
AssembleUntilFailure(i, n, acc) ==
  IF i > n THEN acc
  ELSE IF ft[i].ret.some /\ ~IsBlank(ft[i].ret.text)
  THEN AssembleUntilFailure(i + 1, n,
                            [acc EXCEPT !.contents = DictSet(@, ft[i].ret.url, ft[i].ret.text),
                                        !.urls = Append(@, ft[i].ret.url)])
  ELSE acc

RECURSIVE AssembleReversed(_, _, _)
\* Mutant of Assemble: the results are taken last task first.
AssembleReversed(i, n, acc) ==
  IF i > n THEN acc
  ELSE IF ft[n + 1 - i].ret.some /\ ~IsBlank(ft[n + 1 - i].ret.text)
  THEN AssembleReversed(i + 1, n,
                        [acc EXCEPT !.contents = DictSet(@, ft[n + 1 - i].ret.url,
                                                         ft[n + 1 - i].ret.text),
                                    !.urls = Append(@, ft[n + 1 - i].ret.url)])
  ELSE AssembleReversed(i + 1, n, acc)

RECURSIVE Assemble(_, _, _)
\* for result in results: ... , over the results in the order of the tasks
Assemble(i, n, acc) ==
  IF i > n THEN acc
  ELSE IF ft[i].ret.some /\ ~IsBlank(ft[i].ret.text)
  THEN Assemble(i + 1, n, [acc EXCEPT !.contents = DictSet(@, ft[i].ret.url, ft[i].ret.text),
                                      !.urls = Append(@, ft[i].ret.url)])
  ELSE Assemble(i + 1, n, acc)

NTasksOf(f) == Cardinality({i \in FetchIds : f[i].pc # "none"})

\* gather() is over: the result is assembled and returned.
PipeAssemble ==
  /\ pq.pc = "fetching"
  /\ cur = -1
  /\ \A i \in FetchIds : ft[i].pc \in {"none", "done"}
  /\ pq' = [pq EXCEPT !.pc = "done",
                      !.out = Assemble(1, NTasksOf(ft), [NoOut EXCEPT !.returned = TRUE])]
  /\ UNCHANGED <<cur, scache, sr, ft, sem, gc, cache, mono>>
  /\ UNCHANGED notPipe

\* --------------------------------------------------------- search_endpoint
EndpointIdle == [pc |-> "idle", status |-> 0, extracted |-> 0]

\* len(search_results): the content entries, '_urls', and 'error' if present.
DictSize(out) == Len(out.contents) + 1 + (IF out.error THEN 1 ELSE 0)
\* `not search_results`
Falsy(out) == DictSize(out) = 0

\* A request arrives: determine_search_type answers or raises, and on an
\* answer qwant_search is called with it.
EndpointStart ==
  /\ ep.pc = "idle"
  /\ pq.pc = "off"
  /\ cur = -1
  /\ \/ /\ ep' = [ep EXCEPT !.pc = "done", !.status = 500]
        /\ UNCHANGED pq
     \/ \E type \in SearchTypes :
          /\ ep' = [ep EXCEPT !.pc = "search"]
          /\ pq' = IdlePipe(Q_plain, type, MaxResults)
  /\ UNCHANGED <<lru, slog, cur, scache, sr, ft, sem, gc, cache, mono>>
  /\ UNCHANGED <<retryVars, lastPut, lastGet, gcalls, netModes, provider>>

\* qwant_search has returned: the test of its result, then extract is called.
\* The HTTPException(404) of the test would be caught by the handler's
\* `except Exception` and answered as 500.
EndpointAfterSearch ==
  /\ ep.pc = "search"
  /\ pq.pc = "done"
  /\ cur = -1
  /\ IF Falsy(pq.out)
     THEN ep' = [ep EXCEPT !.pc = "done", !.status = 500]
     ELSE ep' = [ep EXCEPT !.pc = "extract", !.extracted = @ + 1]
  /\ UNCHANGED <<lru, slog, cur, scache, sr, pq, ft, sem, gc, cache, mono>>
  /\ UNCHANGED <<retryVars, lastPut, lastGet, gcalls, netModes, provider>>

\* extract returns, and the response is built, or it raises.
EndpointExtractEnds ==
  /\ ep.pc = "extract"
  /\ cur = -1
  /\ \E st \in {200, 500} : ep' = [ep EXCEPT !.pc = "done", !.status = st]
  /\ UNCHANGED <<lru, slog, cur, scache, sr, pq, ft, sem, gc, cache, mono>>
  /\ UNCHANGED <<retryVars, lastPut, lastGet, gcalls, netModes, provider>>

PipeRest ==
  /\ scache = EmptyCache
  /\ lru = {}
  /\ slog = NoSearchLog
  /\ ep = EndpointIdle
  /\ sr = [s \in SearchIds |-> SearchIdle]
  /\ ft = [i \in FetchIds |-> NoTask]
  /\ sem = SemPermits

\* No qwant_search call is made.
PipeIdle ==
  /\ PipeRest
  /\ provider = {}
  /\ pq = [IdlePipe(Q_plain, "web", 0) EXCEPT !.pc = "off"]


RetryInit ==
  /\ now = 0
  /\ requests = <<>>
  /\ tokens = <<>>
  /\ pc = [t \in Tasks |-> "idle"]
  /\ attempt = [t \in Tasks |-> 0]
  /\ wakeAt = [t \in Tasks |-> 0]
  /\ status = [t \in Tasks |-> 0]
  /\ ncalls = 0
  /\ fcalls = [t \in Tasks |-> 0]
  /\ sleeps = [t \in Tasks |-> 0]
  /\ rlwaits = [t \in Tasks |-> 0]
  /\ lastF = [t \in Tasks |-> "none"]
  /\ recorded = [t \in Tasks |-> 0]

\* The answers of the provider when qwant_search runs on small inputs.
PipeAnswers == {FailedRequest, J_flat, J_main, J_none, J_pair, NoKeysJ}
PipeNet == {"binary", "blank", "short"}

\* One qwant_search call, with any query, search type and max_results. Every
\* page fetch is answered at once, with a short page, a page without text or
\* a non-text content type, and the caches' timer stands still during the call.
PipeInit ==
  /\ RetryInit
  /\ CacheInit
  /\ cur = -1
  /\ gc = [g \in GIds |-> IdleCall]
  /\ gcalls = 0
  /\ netModes = PipeNet
  /\ PipeRest
  /\ provider = PipeAnswers
  /\ \E q \in {Q_plain, Q_video}, type \in {"web", "news", "videos"}, max \in 0..MaxResults :
       pq = IdlePipe(q, type, max)

PipeNext ==
  \/ PipeStart
  \/ \E s \in SearchIds : SearchBegin(s)
  \/ \E s \in SearchIds : SearchAnswer(s)
  \/ \E s \in SearchIds : SearchRetry(s)
  \/ \E s \in SearchIds : AfterSearch(s)
  \/ \E i \in FetchIds : FetchBegin(i)
  \/ \E i \in FetchIds : FetchContinue(i)
  \/ \E g \in FetchIds : ReadCached(g)
  \/ \E g \in FetchIds : HttpAnswer(g)
  \/ PipeAssemble

\* One qwant_search call that collects MaxUrls URLs, more than the semaphore
\* has permits; every page is answered with a non-text content type, so the
\* first two URLs go through their fallbacks.
GateInit ==
  /\ RetryInit
  /\ CacheInit
  /\ cur = -1
  /\ gc = [g \in GIds |-> IdleCall]
  /\ gcalls = 0
  /\ netModes = {"binary"}
  /\ PipeRest
  /\ provider = {J_many}
  /\ \E type \in {"news", "images"} : pq = IdlePipe(Q_plain, type, MaxUrls)

\* One qwant_search call over two URLs, the fallback of the second being the
\* first; a fetch may fail at every attempt, and the caches' timer advances.
SearchAnswers == {FailedRequest, J_none, J_pair}

\* QwantApi.search called several times, on two instances.
SearchInit ==
  /\ RetryInit
  /\ CacheInit
  /\ ContentInit
  /\ PipeRest
  /\ provider = SearchAnswers
  /\ pq = [IdlePipe(Q_plain, "web", 0) EXCEPT !.pc = "off"]

SearchNext ==
  \/ \E inst \in Instances, type \in SearchTypes : SearchCall(inst, type)
  \/ SearchRead(Caller)
  \/ SearchAnswer(Caller)
  \/ SearchRetry(Caller)
  \/ ContentTick

\* One request to search_endpoint.
EndpointInit ==
  /\ RetryInit
  /\ CacheInit
  /\ cur = -1
  /\ gc = [g \in GIds |-> IdleCall]
  /\ gcalls = 0
  /\ netModes = PipeNet
  /\ PipeRest
  /\ provider = SearchAnswers
  /\ pq = [IdlePipe(Q_plain, "web", 0) EXCEPT !.pc = "off"]

EndpointNext ==
  \/ EndpointStart
  \/ PipeStart
  \/ \E s \in SearchIds : SearchBegin(s)
  \/ \E s \in SearchIds : SearchAnswer(s)
  \/ \E s \in SearchIds : SearchRetry(s)
  \/ \E s \in SearchIds : AfterSearch(s)
  \/ \E i \in FetchIds : FetchBegin(i)
  \/ \E i \in FetchIds : FetchContinue(i)
  \/ \E g \in FetchIds : ReadCached(g)
  \/ \E g \in FetchIds : HttpAnswer(g)
  \/ PipeAssemble
  \/ EndpointAfterSearch
  \/ EndpointExtractEnds

SiblingInit ==
  /\ RetryInit
  /\ CacheInit
  /\ cur = -1
  /\ gc = [g \in GIds |-> IdleCall]
  /\ gcalls = 0
  /\ netModes = {"neterr", "short"}
  /\ PipeRest
  /\ provider = {J_pair}
  /\ \E type \in {"news", "images"} : pq = IdlePipe(Q_plain, type, MaxResults)

SiblingNext ==
  \/ PipeStart
  \/ SearchAnswer(101)
  \/ AfterSearch(101)
  \/ \E i \in FetchIds : FetchBegin(i)
  \/ \E i \in FetchIds : FetchContinue(i)
  \/ \E g \in FetchIds : ReadCached(g)
  \/ \E g \in FetchIds : HttpAnswer(g)
  \/ \E g \in FetchIds : HttpRetry(g)
  \/ PipeAssemble
  \/ ContentTick

GateNext ==
  \/ PipeStart
  \/ SearchAnswer(101)
  \/ AfterSearch(101)
  \/ \E i \in FetchIds : FetchBegin(i)
  \/ \E i \in FetchIds : FetchAdmit(i)
  \/ \E i \in FetchIds : FetchContinue(i)
  \/ \E g \in FetchIds : HttpAnswer(g)
  \/ PipeAssemble

\* One qwant_search call in one of two situations: one URL more than the
\* semaphore has permits, whose pages all have a non-text content type, with
\* the caches' timer at rest at its largest value, or two
\* URLs whose fetches fail, succeed or raise while the timer advances, after
\* searches that may fail.
DrainInit ==
  /\ RetryInit
  /\ cache = EmptyCache
  /\ lastPut = NoPut
  /\ lastGet = NoGet
  /\ cur = -1
  /\ gc = [g \in GIds |-> IdleCall]
  /\ gcalls = 0
  /\ PipeRest
  /\ \/ /\ netModes = {"binary"}
        /\ provider = {J_many}
        /\ mono = MaxMono
        /\ pq = IdlePipe(Q_plain, "news", SemPermits + 1)
     \/ /\ netModes = {"neterr", "short"}
        /\ provider = {FailedRequest, J_pair}
        /\ mono = 0
        /\ pq = IdlePipe(Q_plain, "news", MaxResults)

DrainNext ==
  \/ PipeStart
  \/ \E s \in SearchIds : SearchAnswer(s)
  \/ \E s \in SearchIds : SearchRetry(s)
  \/ \E s \in SearchIds : AfterSearch(s)
  \/ \E i \in FetchIds : FetchBegin(i)
  \/ \E i \in FetchIds : FetchAdmit(i)
  \/ \E i \in FetchIds : FetchContinue(i)
  \/ \E g \in FetchIds : ReadCached(g)
  \/ \E g \in FetchIds : HttpAnswer(g)
  \/ \E g \in FetchIds : HttpRetry(g)
  \/ PipeAssemble
  \/ ContentTick

\* qwant_search when every search and every fetch that is under way ends and
\* the event loop runs every task that is ready.
DrainSpec == DrainInit /\ [][DrainNext]_vars /\ WF_vars(DrainNext)

Init == RetryInit /\ CacheInit /\ ContentInit /\ PipeIdle

Next ==
  \/ \E t \in Tasks : Start(t)
  \/ \E t \in Tasks : WakeRateLimit(t)
  \/ \E t \in Tasks : FuncSucceeds(t)
  \/ \E t \in Tasks : FuncRateLimited(t)
  \/ \E t \in Tasks : FuncFails(t)
  \/ \E t \in Tasks : WakeBackoff(t)
  \/ Tick

Spec == Init /\ [][Next]_vars

\* A TTL cache under any sequence of assignments, membership tests and reads.
CacheSpec == Init /\ [][CacheNext]_vars

\* get_content called directly, over the content cache.
ContentSpec == Init /\ [][ContentNext]_vars

\* qwant_search: the searches, the URL collection, the gated fetches.
PipeSpec == PipeInit /\ [][PipeNext]_vars

\* qwant_search with more URLs to fetch than the semaphore admits.
GateSpec == GateInit /\ [][GateNext]_vars

\* QwantApi.search behind its lru_cache and over SEARCH_CACHE.
SearchSpec == SearchInit /\ [][SearchNext]_vars

\* search_endpoint: classification, qwant_search, synthesis.
EndpointSpec == EndpointInit /\ [][EndpointNext]_vars

\* qwant_search over two URLs whose fetches fail, succeed or raise.
SiblingSpec == SiblingInit /\ [][SiblingNext]_vars

\* ================================================================ claims
\* C1: at every moment the number of request timestamps recorded within the
\* trailing 60-second window is at most rpm_limit.
C1_WindowWithinLimit == Cardinality(InWindow(requests, now)) <= rpm_limit

\* C2: once func has failed with an error whose message lacks "429", the call
\* is over with status 500: func is not invoked again (the caller leaves the
\* loop) and no backoff sleep was made for that failure (every earlier
\* invocation had one, the fatal one has none).
C2_FatalNotRetried ==
  \A t \in Tasks :
    lastF[t] = "other" =>
      /\ pc[t] = "done"
      /\ status[t] = 500
      /\ sleeps[t] = fcalls[t] - 1

\* C2 witness: a fatal failure at a second or later attempt.
C2_Witness ==
  \E t \in Tasks : lastF[t] = "other" /\ status[t] = 500 /\ fcalls[t] >= 2

\* C3: a wrapped call invokes func at most max_retries (5) times; a call whose
\* 5 invocations were all rejected with "429" ends with status 429, and
\* status 429 is the outcome of no other call.
C3_BoundedAttempts ==
  \A t \in Tasks :
    /\ fcalls[t] <= max_retries
    /\ attempt[t] < max_retries
    /\ (pc[t] = "done" /\ sleeps[t] = max_retries) => status[t] = 429
    /\ status[t] = 429 =>
         (pc[t] = "done" /\ fcalls[t] = max_retries /\ sleeps[t] = max_retries)

\* C3 witness: a call that ended with status 429 after 5 invocations.
C3_Witness ==
  \E t \in Tasks : pc[t] = "done" /\ status[t] = 429 /\ fcalls[t] = max_retries

\* C4 as claimed: the cache never holds more than maxsize entries, and
\* assigning a new key while maxsize unexpired entries are present evicts
\* exactly one entry, the one assigned longest ago, leaving maxsize entries.
C4_EvictsOldest ==
  /\ Cardinality(DOMAIN cache.data) <= CacheMaxSize
  /\ lastPut.full =>
       (lastPut.evicted = {lastPut.oldest} /\ lastPut.size = CacheMaxSize)

\* C4 amended: the cache never holds more than maxsize entries, and assigning
\* a new key while maxsize unexpired entries are present evicts exactly one
\* entry, the least recently used one (least recently assigned or read),
\* leaving maxsize entries.
C4_EvictsLeastRecentlyUsed ==
  /\ Cardinality(DOMAIN cache.data) <= CacheMaxSize
  /\ Len(cache.lru) = Cardinality(DOMAIN cache.data)
  /\ lastPut.full =>
       (lastPut.evicted = {lastPut.lru} /\ lastPut.size = CacheMaxSize)

\* C4 witness: a new key was assigned to a full cache whose least recently
\* used entry was not its oldest, and one entry was evicted.
C4_Witness ==
  /\ lastPut.full
  /\ lastPut.size = CacheMaxSize
  /\ lastPut.evicted # {}
  /\ lastPut.lru # lastPut.oldest

C9_NoTranscriptGivesEmpty ==
  \A g \in DOMAIN gc :
    (gc[g].pc = "ret" /\ ExtractYoutubeId(gc[g].url) # "" /\ gc[g].isv
       /\ gc[g].tr = "failed") => gc[g].ret = EmptyText

\* The provider's items as one flat list: the "mainline" wrapper dropped and
\* every container replaced by the items it holds.
RECURSIVE FlatList(_)
FlatList(items) ==
  IF items = <<>> THEN <<>>
  ELSE IF Head(items).t = "box" THEN Head(items).items \o FlatList(Tail(items))
  ELSE <<Head(items)>> \o FlatList(Tail(items))
Flattened(r) == IF r.j = "items" THEN ItemsJ(FlatItems(FlatList(r.data.items))) ELSE r

Collected == pq.pc \in {"fetching", "done"}
Distinct(seq) == \A i, j \in 1..Len(seq) : i # j => seq[i] # seq[j]
\* What the collection would give without a cap.
Uncapped ==
  CollectUrls(Results(sr, pq.type), Secondary(sr, pq.type), 2 * MaxUrls, pq.isv).urls

C7_NestedAsFlat ==
  Collected =>
    pq.all_urls = CollectUrls(Flattened(Results(sr, pq.type)),
                              Flattened(Secondary(sr, pq.type)), pq.max, pq.isv).urls

\* URLs were collected from a "mainline" result whose containers repeat a URL,
\* and the cap cut the collection short.
C7_Witness ==
  /\ Collected
  /\ Results(sr, pq.type) = J_main
  /\ Len(pq.all_urls) >= 2
  /\ Len(Uncapped) > pq.max

\* C8: when video-intent is false no URL of the video site is collected,
\* fetched by a fetch task or present in the result; and get_content on a URL
\* with a video id and is_video_search false returns empty text without any
\* HTTP request.
C8_NoVideoWithoutIntent ==
  /\ (Collected /\ ~pq.isv) =>
       /\ \A i \in 1..Len(pq.all_urls) : ~IsYoutube(pq.all_urls[i])
       /\ \A i \in FetchIds : gc[i].http > 0 => ~IsYoutube(gc[i].url)
       /\ \A i \in 1..Len(pq.out.urls) : ~IsYoutube(pq.out.urls[i])
  /\ \A g \in GIds :
       (gc[g].pc = "ret" /\ ExtractYoutubeId(gc[g].url) # "" /\ ~gc[g].isv) =>
         gc[g].ret = EmptyText /\ gc[g].http = 0

InGate == {i \in FetchIds : ft[i].pc = "in"}

\* C10: at most 8 fetch tasks are inside the semaphore, in their primary fetch
\* or in a fallback, however many URLs were collected.
C10_AtMostEightInFlight ==
  /\ Cardinality(InGate) <= SemPermits
  /\ sem >= 0
  /\ pq.pc = "fetching" => sem + Cardinality(InGate) = SemPermits

\* Eight tasks are inside, one of them in a fallback fetch, and one waits.
C10_Witness ==
  /\ Cardinality(InGate) = SemPermits
  /\ \E i \in InGate : ft[i].stage \in {"doc1", "doc2"} /\ gc[i].pc = "http"
  /\ \E i \in FetchIds : ft[i].pc = "waiting"


ResultHas(url, text) == \E k \in 1..Len(pq.out.contents) : pq.out.contents[k] = <<url, text>>
ResultNames(url) == InSeq(url, pq.out.urls)
\* The last get_content call of task i gave non-empty text.
GotText(i) == gc[i].pc = "ret" /\ gc[i].ret.kind # "KeyError" /\ ~IsBlank(gc[i].ret)

\* C11: when qwant_search has returned, every collected URL whose task ended
\* with non-empty text is in the result with that text, whatever the other
\* tasks met, and a URL whose task got nothing (failure at every attempt,
\* empty page, exception) is not in the result.
C11_SiblingsUnaffected ==
  pq.pc = "done" =>
    \A i \in FetchIds :
      ft[i].pc = "done" =>
        /\ GotText(i) => ResultHas(ft[i].url, gc[i].ret) /\ ResultNames(ft[i].url)
        /\ ~GotText(i) => ~ResultNames(ft[i].url)

\* The first task failed at every attempt, the second one got text and is in
\* the result.
C11_Witness ==
  /\ pq.pc = "done"
  /\ gc[1].attempt = gc_max_retries - 1 /\ gc[1].ret = EmptyText /\ gc[1].http = gc_max_retries
  /\ GotText(2)
  /\ pq.out.urls = <<U_docs>>


\* C12: when the requested type is "news" and the provider answered the news
\* search with zero items, a "web" search was issued and the URLs are
\* collected from its items.
C12_EmptyNewsFallsBackToWeb ==
  (Collected /\ pq.type = "news" /\ sr[101].out = J_none) =>
    /\ sr[102].pc = "done" /\ sr[102].type = "web"
    /\ pq.all_urls = CollectUrls(sr[102].out, NoneJ, pq.max, pq.isv).urls

AllSearchesFailed ==
  \A s \in SearchIds : sr[s].pc = "done" /\ sr[s].out.j = "exc"

\* C13: when every search of the call has failed, qwant_search returns an
\* empty result that carries an error annotation.
C13_FailedSearchesAnnotated ==
  (pq.pc = "done" /\ AllSearchesFailed) =>
    pq.out.returned /\ pq.out.urls = <<>> /\ pq.out.contents = <<>> /\ pq.out.error

\* C14: the content cache holds no empty value, and no content value of a
\* returned result is empty.
C14_NoBlankContent ==
  /\ \A k \in DOMAIN cache.data : ~IsBlank(cache.data[k].val)
  /\ \A k \in 1..Len(pq.out.contents) : ~IsBlank(pq.out.contents[k][2])

\* A task fetched a page and got no text, another one got text that is cached
\* and returned.
C14_Witness ==
  /\ pq.pc = "done"
  /\ \E i \in FetchIds : ft[i].pc = "done" /\ gc[i].http > 0 /\ gc[i].ret = EmptyText
  /\ pq.out.contents # <<>>
  /\ DOMAIN cache.data # {}


\* C15: a QwantApi.search call with the arguments of an earlier call that got
\* its result from the provider less than the TTL before returns that result
\* and makes no external request, whatever instance it is made on.
C15_RepeatedSearchServedFromCache ==
  (sr[Caller].pc = "ret" /\ slog.due) =>
    sr[Caller].out = slog.val /\ sr[Caller].http = 0

AllDelays(seq) == \A i \in 1..Len(seq) : seq[i] = RETRY_DELAY

\* C16: a search makes at most 3 external calls, sleeps RETRY_DELAY between
\* two of them and not after the last; when all 3 fail it raises the 503 error
\* and SEARCH_CACHE holds what it held when the call began; the entries of
\* SEARCH_CACHE change only in a call that ends with the provider's answer.
C16_ThreeAttemptsFixedDelay ==
  LET c == sr[Caller]
  IN  /\ c.http <= MAX_RETRIES
      /\ AllDelays(c.slept)
      /\ c.pc = "sleep" => Len(c.slept) = c.http
      /\ (c.pc \in {"http", "ret"} /\ c.http > 0) => Len(c.slept) = c.http - 1
      /\ (c.pc = "ret" /\ c.out = ExcJ(503)) => c.http = MAX_RETRIES /\ scache = slog.snap
      /\ scache.data # slog.snap.data =>
           c.pc = "ret" /\ c.http > 0 /\ c.out.j \in {"items", "nokeys"}

\* A search failed three times and raised, over a cache that held an entry.
C16_Witness ==
  /\ sr[Caller].pc = "ret" /\ sr[Caller].out = ExcJ(503)
  /\ sr[Caller].http = MAX_RETRIES
  /\ sr[Caller].slept = <<RETRY_DELAY, RETRY_DELAY>>
  /\ DOMAIN scache.data # {}


\* Both tasks got their page at the first fetch, and the page of the second
\* URL was cached before the page of the first: the second task completed
\* before the first.
SecondCompletedFirst ==
  LET k1 == CacheKey(U_plain, FALSE)
      k2 == CacheKey(U_docs, FALSE)
  IN  /\ pq.pc = "done"
      /\ pq.all_urls = <<U_plain, U_docs>>
      /\ GotText(1) /\ gc[1].src = "page" /\ gc[1].url = U_plain
      /\ GotText(2) /\ gc[2].src = "page" /\ gc[2].url = U_docs
      /\ k1 \in DOMAIN cache.data /\ k2 \in DOMAIN cache.data
      /\ cache.data[k2].at < cache.data[k1].at

C18_NoResultsGive404 ==
  (ep.pc = "done" /\ pq.out.returned /\ pq.out.urls = <<>> /\ pq.out.contents = <<>>) =>
    ep.status = 404 /\ ep.extracted = 0


\* C19: with several callers running wrapped operations concurrently, no 60
\* seconds that begin at a recorded request hold more than rpm_limit recorded
\* requests.
C19_NoWindowOverLimit ==
  \A i \in 1..Len(requests) :
    Cardinality({j \in 1..Len(requests) :
                   requests[j] >= requests[i] /\ requests[j] - requests[i] < window})
      <= rpm_limit

\* What one step may do to caller t around its rate-limit sleep.
RateLimitSleepStep(t) ==
  /\ (pc[t] # "rl_sleep" /\ pc'[t] = "rl_sleep") =>
       /\ requests' # <<>>
       /\ wakeAt'[t] - now = 60 - (now - requests'[1])
       /\ wakeAt'[t] - now >= 0 /\ wakeAt'[t] - now <= 60
       /\ rlwaits'[t] = 1
  /\ pc[t] = "rl_sleep" =>
       \/ pc'[t] = "rl_sleep" /\ wakeAt'[t] = wakeAt[t] /\ fcalls'[t] = fcalls[t]
       \/ /\ pc'[t] = "in_f"
          /\ now >= wakeAt[t]
          /\ fcalls'[t] = fcalls[t] + 1
          /\ rlwaits'[t] = 1
          /\ requests' = requests /\ tokens' = tokens

RecordStep(t) ==
  (pc[t] = "in_f" /\ pc'[t] # "in_f") =>
     IF lastF'[t] = "ok"
     THEN /\ requests' = Append(requests, now)
          /\ pc'[t] = "done" /\ status'[t] = 200
          /\ recorded'[t] = recorded[t] + 1
     ELSE /\ requests' = requests
          /\ recorded'[t] = recorded[t]
          /\ lastF'[t] \in {"err429", "other"}

\* A step in which no invocation of f ends adds no request.
NoOtherRecord ==
  (\A t \in Tasks : ~(pc[t] = "in_f" /\ pc'[t] # "in_f")) =>
     /\ Len(requests') <= Len(requests)
     /\ \A t \in Tasks : recorded'[t] <= recorded[t]

\* C21: a call through with_retries records a request exactly once when f
\* succeeds, after f has returned, and records nothing for an attempt of f
\* that fails (rate-limit rejections included): a failed attempt leaves the
\* request window as it was.
C21_RecordedOnceOnSuccess ==
  [][ /\ \A t \in Tasks : RecordStep(t)
      /\ NoOtherRecord
      /\ \A t \in Tasks : pc'[t] = "done" =>
           recorded'[t] = (IF status'[t] = 200 THEN 1 ELSE 0) ]_vars

\* A call has succeeded after a rejected attempt and has recorded one request.
C21_Witness ==
  \E t \in Tasks : /\ pc[t] = "done" /\ status[t] = 200
                   /\ sleeps[t] >= 1 /\ recorded[t] = 1
                   /\ requests # <<>>

RECURSIVE UrlsIn(_, _)
\* The URLs of a list of items without containers, in order; those of the
\* video site are left out when video-intent is false.
UrlsIn(items, isv) ==
  IF items = <<>> THEN <<>>
  ELSE LET rest == UrlsIn(Tail(items), isv)
           item == Head(items)
       IN  IF item.t = "url" /\ (isv \/ ~IsYoutube(item.url)) THEN <<item.url>> \o rest
           ELSE rest
\* The URLs a search outcome offers, in provider order.
UrlsOf(r, isv) == IF r.j = "items" THEN UrlsIn(FlatList(r.data.items), isv) ELSE <<>>

RECURSIVE Dedup(_)
\* A list without its repetitions: the first occurrence of each element stays.
Dedup(seq) ==
  IF seq = <<>> THEN <<>>
  ELSE LET front == Dedup(SubSeq(seq, 1, Len(seq) - 1))
           last == seq[Len(seq)]
       IN  IF InSeq(last, front) THEN front ELSE Append(front, last)

\* C22: for the requested type "web", qwant_search dispatches the two searches
\* "web" and "news" together, before either has answered; the collected URL
\* list is the web URLs in provider order followed by the news URLs not yet
\* present, cut at max_results; when web fails and news succeeds the list is
\* drawn from the news results alone.
C22_WebMergesNews ==
  pq.type = "web" =>
    /\ pq.pc = "searching" =>
         /\ sr[101].type = "web" /\ sr[102].type = "news"
         /\ sr[101].pc # "idle" /\ sr[102].pc # "idle"
    /\ Collected =>
         LET web == sr[101].out
             news == sr[102].out
         IN  /\ sr[101].type = "web" /\ sr[102].type = "news"
             /\ sr[101].pc = "done" /\ sr[102].pc = "done"
             /\ pq.all_urls =
                  IF web.j = "exc" /\ news.j # "exc"
                  THEN Slice(Dedup(UrlsOf(news, pq.isv)), pq.max)
                  ELSE Slice(Dedup(UrlsOf(web, pq.isv) \o UrlsOf(news, pq.isv)), pq.max)

\* The web search gave fewer URLs than max_results and the news search gave
\* one of them again and a new one: the list is the web URLs, then the new one.
C22_Witness ==
  /\ pq.type = "web"
  /\ Collected
  /\ sr[101].out = J_pair
  /\ sr[102].out = J_flat
  /\ pq.max = 3
  /\ pq.all_urls = <<U_plain, U_docs, U_git>>

\* The attempts and sleeps of the get_content call of coroutine g: at most 3
\* attempts, the i-th sleep of base_delay * 2^(i-1) seconds between them.
BoundedFetch(g) ==
  /\ gc[g].http <= 3
  /\ Len(gc[g].slept) <= 2
  /\ \A i \in 1..Len(gc[g].slept) : gc[g].slept[i] = gc_base_delay * Pow2(i - 1)
  /\ gc[g].pc = "http" => Len(gc[g].slept) = gc[g].http - 1
  /\ (gc[g].pc = "ret" /\ gc[g].http = 3 /\ gc[g].src = "none") => gc[g].ret = EmptyText

\* C23: every call of get_content makes at most 3 HTTP attempts with a sleep
\* of base_delay * 2^attempt between consecutive attempts and returns a text
\* to its caller, the empty text when every attempt failed; no execution of
\* get_content, the cache lookup included, ends with an error.
C23_AlwaysReturnsText ==
  \A g \in GIds :
    /\ BoundedFetch(g)
    /\ gc[g].pc = "ret" => gc[g].ret.kind \in {"empty", "page", "transcript"}

\* The retry loop alone keeps its bounds in every call.
RetryLoopBounded == \A g \in GIds : BoundedFetch(g)

\* get_content has returned the empty text to fetch task i.
GotEmpty(i) == gc[i].pc = "ret" /\ gc[i].ret.kind # "KeyError" /\ IsBlank(gc[i].ret)

\* What one step may do to the get_content calls of fetch task i.
FallbackStep(i) ==
  LET url == ft[i].url
  IN  \* a further call is made only as a fallback, after an empty text
      /\ (gc[i].pc = "ret" /\ gc'[i] # gc[i]) =>
           /\ ft[i].pc = "in" /\ ft'[i].pc = "in"
           /\ GotEmpty(i)
           /\ \/ /\ ft[i].stage = "primary" /\ ft'[i].stage = "git"
                 /\ HasToken(url, "github.com")
                 /\ gc'[i].url = RawUrl(url)
              \/ /\ ft[i].stage = "primary" /\ ft'[i].stage = "doc1"
                 /\ ~HasToken(url, "github.com") /\ HasToken(url, "docs.")
                 /\ gc'[i].url = AltUrl1(url)
              \/ /\ ft[i].stage = "doc1" /\ ft'[i].stage = "doc2"
                 /\ gc'[i].url = AltUrl2(url)
      \* the stage changes with a fallback call only
      /\ (ft[i].pc = "in" /\ ft'[i].stage # ft[i].stage) => gc'[i] # gc[i]
      \* the task ends with content, with an error, or with its fallbacks used up
      /\ (ft[i].pc = "in" /\ ft'[i].pc = "done") =>
           \/ /\ gc[i].pc = "ret" /\ gc[i].ret.kind # "KeyError" /\ ~IsBlank(gc[i].ret)
              /\ ft'[i].ret = [some |-> TRUE, url |-> url, text |-> gc[i].ret]
           \/ gc[i].pc = "ret" /\ gc[i].ret.kind = "KeyError" /\ ft'[i].ret = NoResult
           \/ /\ GotEmpty(i)
              /\ ft'[i].ret = NoResult
              /\ ft[i].stage = IF HasToken(url, "github.com") THEN "git"
                               ELSE IF HasToken(url, "docs.") THEN "doc2"
                               ELSE "primary"

\* C24: a fetch task of qwant_search tries a fallback only after get_content
\* returned the empty text for the URL itself; a code-hosting URL then gets
\* exactly one more get_content call, on the raw-content URL, a URL of a
\* documentation subdomain at most two more, which stop at the first non-empty
\* result, and any other URL none.
C24_FallbacksAfterEmpty == [][\A i \in FetchIds : FallbackStep(i)]_vars

\* One task has ended after its raw-content fallback, another one got its
\* content from the second alternate documentation URL.
C24_Witness ==
  /\ \E i \in FetchIds : ft[i].pc = "done" /\ ft[i].stage = "git"
  /\ \E i \in FetchIds : ft[i].pc = "done" /\ ft[i].stage = "doc2" /\ ft[i].ret.some

\* The lengths of the joined fragments that a page or a transcript can have.
JoinedLens == {PageLen(r) : r \in {"blank", "short", "long"}} \cup TranscriptLens

\* `text` is what the size limit makes of joined fragments of n characters.
LimitedFrom(text, n) ==
  /\ text.body = Min(n, MaxContent)
  /\ text.marker = (n > MaxContent)

\* C25: every text returned by get_content, from a web page or a transcript,
\* has at most 10,000 characters of content, followed by the truncation marker
\* when it was cut, and is the joined fragments unchanged when these have
\* 10,000 characters or fewer.
C25_ContentLimited ==
  \A g \in GIds :
    (gc[g].pc = "ret" /\ gc[g].ret.kind \in {"empty", "page", "transcript"}) =>
       /\ gc[g].ret.body <= MaxContent
       /\ \E n \in JoinedLens : LimitedFrom(gc[g].ret, n)

\* The size limit on the web-page path alone.
PageContentLimited ==
  \A g \in GIds :
    (gc[g].pc = "ret" /\ gc[g].ret.kind \in {"empty", "page"}) =>
       /\ gc[g].ret.body <= MaxContent
       /\ \E n \in JoinedLens : LimitedFrom(gc[g].ret, n)

\* The keys of the content map of the result, '_urls' apart.
ContentKeys == {pq.out.contents[k][1] : k \in 1..Len(pq.out.contents)}

\* C26: in every result returned by qwant_search the list '_urls' has no
\* duplicates and holds exactly the keys of the content map; every key is one
\* of the collected URLs that were submitted, under which the content of its
\* task is stored also when a fallback URL was fetched for it.
C26_UrlsAreContentKeys ==
  (pq.pc = "done" /\ pq.out.returned) =>
     /\ Distinct(pq.out.urls)
     /\ Len(pq.out.contents) = Len(pq.out.urls)
     /\ {pq.out.urls[k] : k \in 1..Len(pq.out.urls)} = ContentKeys
     /\ \A u \in ContentKeys : InSeq(u, Slice(pq.all_urls, pq.max))
     /\ \A i \in FetchIds :
          ft[i].ret.some =>
            /\ ResultHas(ft[i].url, ft[i].ret.text)
            /\ (gc[i].url # ft[i].url /\ ~InSeq(gc[i].url, pq.all_urls)) =>
                 gc[i].url \notin ContentKeys

\* A result with two entries, one of which got its content from a rewritten
\* URL that was not collected.
C26_Witness ==
  /\ pq.pc = "done"
  /\ Len(pq.out.urls) >= 2
  /\ \E i \in FetchIds :
       /\ ft[i].ret.some
       /\ ft[i].stage \in {"doc1", "doc2"}
       /\ gc[i].url # ft[i].url
       /\ ~InSeq(gc[i].url, pq.all_urls)
       /\ ResultHas(ft[i].url, ft[i].ret.text)

\* Caller t asks can_make_request in this step: at the head of an attempt.
AsksLimiter(t) == pc[t] \in {"idle", "done", "backoff"} /\ pc'[t] \in {"in_f", "rl_sleep"}

\* C27: in every state reached through operations wrapped by with_retries the
\* token window of the rate limiter is empty, and the answer of every
\* can_make_request is decided by the number of requests in the window alone.
C27_TokenWindowEmpty ==
  /\ [](tokens = <<>>)
  /\ [][\A t \in Tasks :
          AsksLimiter(t) => (pc'[t] = "in_f" <=> Len(requests') < rpm_limit)]_vars

\* The limiter has refused a caller while requests were recorded and the
\* token window was empty.
C27_Witness ==
  \E t \in Tasks : pc[t] = "rl_sleep" /\ Len(requests) >= rpm_limit /\ tokens = <<>>

\* What one step may do to the permit of fetch task i.
PermitStep(i) ==
  /\ (ft[i].pc # "in" /\ ft'[i].pc = "in") => sem > 0 /\ sem' = sem - 1
  /\ (ft[i].pc = "in" /\ ft'[i].pc = "done") => sem' = sem + 1
  /\ ft'[i].pc = "done" => ft[i].pc \in {"in", "done"}

\* qwant_search has returned its result.
HasReturned == pq.pc = "done" /\ pq.out.returned

\* C28: a qwant_search call whose searches and fetches each end returns a
\* result; every fetch task is admitted through the gate of 8 permits and gives
\* its permit back however it ends, and all 8 permits are free when the call
\* returns.
C28_ReturnsWithGateFree ==
  /\ <>HasReturned
  /\ [](HasReturned => /\ sem = SemPermits
                       /\ \A i \in FetchIds : ft[i].pc \in {"none", "done"})
  /\ [][\A i \in FetchIds : PermitStep(i)]_vars

\* The call has returned after more fetch tasks than the gate has permits.
C28_Witness ==
  /\ HasReturned
  /\ NTasksOf(ft) > SemPermits
  /\ \A i \in FetchIds : ft[i].pc \in {"none", "done"}
  /\ sem = SemPermits

====
